---- MODULE Spec2Model ----
(***************************************************************************)
(* guardduty-to-slack-lambda (src/src/lib.rs): one Lambda invocation takes *)
(* an SNS event, decodes the GuardDuty finding in its first record, builds *)
(* a Slack payload (severity level, documentation link, attachment) and    *)
(* posts it to the webhook named by WEBHOOK_URL.                           *)
(*                                                                         *)
(* Strings the code inspects or concatenates are sequences of one-         *)
(* character strings; strings it only passes along are TLA+ strings.       *)
(* Option<T> is a sequence: <<>> for None, <<x>> for Some(x).  A severity  *)
(* (f32) is an integer count of 1/Scale units, so that the comparisons of  *)
(* from_severity are exact.                                                *)
(***************************************************************************)
EXTENDS Integers, Sequences, FiniteSets

VARIABLES event, env, pc, message, webhook, level, fallback, finding_group,
          link, payload, result, panic, log, outbox

vars == <<event, env, pc, message, webhook, level, fallback, finding_group,
          link, payload, result, panic, log, outbox>>

\* ------------------------------------------------------------ bounds
\* Longest finding type built from Segments, in segments.
MaxSegments == 3
\* Severities are the multiples of 1/Scale in [-1.0, 11.0].
Scale == 2

\* ------------------------------------------------------------ options
None == <<>>
Some(x) == <<x>>
Unwrap(o) == o[1]

\* ------------------------------------------------------------ strings
UpperCase == <<"A", "B", "C", "D", "E", "F", "G", "H", "I", "J", "K", "L", "M", "N", "O", "P", "Q", "R", "S", "T", "U", "V", "W", "X", "Y", "Z">>
LowerCase == <<"a", "b", "c", "d", "e", "f", "g", "h", "i", "j", "k", "l", "m", "n", "o", "p", "q", "r", "s", "t", "u", "v", "w", "x", "y", "z">>
Digits == <<"0", "1", "2", "3", "4", "5", "6", "7", "8", "9">>

Chars(s) == {s[k] : k \in 1..Len(s)}

\* char::to_lowercase on the characters of the model's alphabet (ASCII).
ToLowerChar(c) ==
    IF \E k \in 1..Len(UpperCase) : UpperCase[k] = c
    THEN LowerCase[CHOOSE k \in 1..Len(UpperCase) : UpperCase[k] = c]
    ELSE c

\* String::to_lowercase (line 188).
ToLowercase(s) == [k \in 1..Len(s) |-> ToLowerChar(s[k])]

\* The regex class \w on the model's alphabet: letters, digits, underscore.
IsWord(c) == c \in Chars(UpperCase) \cup Chars(LowerCase) \cup Chars(Digits) \cup {"_"}

RECURSIVE Concat(_)
Concat(parts) == IF parts = <<>> THEN <<>> ELSE Head(parts) \o Concat(Tail(parts))

\* ------------------------------------------------------------ the regex
\* Regex (?::)([\w]*?)(?:/) (line 187): a match is a ':' at p, a run of \w
\* characters, and a '/' at q.  '/' is not a \w character, so q is the first
\* '/' after p whether the run is matched lazily or greedily.
IsMatch(s, p, q) ==
    /\ p < q
    /\ s[p] = ":"
    /\ s[q] = "/"
    /\ \A k \in (p + 1)..(q - 1) : IsWord(s[k])

MatchStarts(s) == {p \in 1..Len(s) : \E q \in 1..Len(s) : IsMatch(s, p, q)}

\* Regex::captures (line 189): the leftmost match, or None.  Group 1 always
\* takes part in a match (it may be empty).
Captures(s) ==
    IF MatchStarts(s) = {} THEN None
    ELSE LET p == CHOOSE a \in MatchStarts(s) : \A b \in MatchStarts(s) : a <= b
             q == CHOOSE b \in 1..Len(s) : IsMatch(s, p, b)
         IN  Some([start |-> p, end |-> q, group1 |-> Some(SubSeq(s, p + 1, q - 1))])

\* A replacement that rewrites every match, not only the leftmost one.
RECURSIVE RegexReplaceAll(_, _)
RegexReplaceAll(s, rep) ==
    LET caps == Captures(s) IN
    IF caps = None THEN s
    ELSE SubSeq(s, 1, Unwrap(caps).start - 1) \o rep
           \o RegexReplaceAll(SubSeq(s, Unwrap(caps).end + 1, Len(s)), rep)

\* Regex::replace (line 211): rewrites the leftmost match only.
RegexReplace(s, rep) ==
    LET caps == Captures(s) IN
    IF caps = None THEN s
    ELSE SubSeq(s, 1, Unwrap(caps).start - 1) \o rep
           \o SubSeq(s, Unwrap(caps).end + 1, Len(s))

\* ------------------------------------------------------------ severity levels
Colour == [RED |-> "#DF4661", ORANGE |-> "#DB6B30", YELLOW |-> "#FED141",
           GREEN |-> "#008C95", BLUE |-> "#00A3E0", SILVER |-> "#BABABA",
           PINK |-> "#AF1685", PURPLE |-> "#2E1A47"]

\* Levels::default (lines 229-254).
LevelsDefault ==
    [critical |-> [colour |-> Colour.RED,    mention |-> <<"@", "c", "h", "a", "n", "n", "e", "l">>],
     high     |-> [colour |-> Colour.ORANGE, mention |-> <<"@", "c", "h", "a", "n", "n", "e", "l">>],
     medium   |-> [colour |-> Colour.YELLOW, mention |-> <<"@", "h", "e", "r", "e">>],
     low      |-> [colour |-> Colour.BLUE,   mention |-> <<>>],
     unknown  |-> [colour |-> Colour.SILVER, mention |-> <<>>]]

\* from_severity with the upper edge of every range taken in.
FromSeverityClosed(levels, severity) ==
    IF severity >= 9 * Scale /\ severity <= 10 * Scale THEN levels.critical
    ELSE IF severity >= 7 * Scale /\ severity <= 9 * Scale THEN levels.high
    ELSE IF severity >= 4 * Scale /\ severity <= 7 * Scale THEN levels.medium
    ELSE IF severity >= 1 * Scale /\ severity <= 4 * Scale THEN levels.low
    ELSE levels.unknown

\* Levels::from_severity (lines 257-265): the first arm whose guard holds.
FromSeverity(levels, severity) ==
    IF severity >= 9 * Scale /\ severity < 10 * Scale THEN levels.critical
    ELSE IF severity >= 7 * Scale /\ severity < 9 * Scale THEN levels.high
    ELSE IF severity >= 4 * Scale /\ severity < 7 * Scale THEN levels.medium
    ELSE IF severity >= 1 * Scale /\ severity < 4 * Scale THEN levels.low
    ELSE levels.unknown

\* ------------------------------------------------------------ finding_link
BaseUrl == <<"h", "t", "t", "p", "s", ":", "/", "/", "d", "o", "c", "s", ".", "a", "w", "s", ".", "a", "m", "a", "z", "o", "n", ".", "c", "o", "m", "/", "g", "u", "a", "r", "d", "d", "u", "t", "y", "/", "l", "a", "t", "e", "s", "t", "/", "u", "g", "/", "g", "u", "a", "r", "d", "d", "u", "t", "y", "_", "f", "i", "n", "d", "i", "n", "g", "-", "t", "y", "p", "e", "s", "-">>

ErrLog(i, text, arg) == [inv |-> i, level |-> "error", msg |-> text, arg |-> arg]
InfoLog(i, text) == [inv |-> i, level |-> "info", msg |-> text, arg |-> <<>>]
DebugLog(i, text, arg) == [inv |-> i, level |-> "debug", msg |-> text, arg |-> arg]

NoGroupMsg == "ERR: Couldn't match a finding group in: {}"
UnexpectedGroupMsg == "ERR: Got unexpected finding group: {:#?}"

\* The match at lines 199-209: the group of a category token, or None for a
\* token outside the table.
GroupOf(token) ==
    IF token = <<"i", "a", "m", "u", "s", "e", "r">> THEN Some(<<"i", "a", "m">>)
    ELSE IF token = <<"e", "c", "2">> THEN Some(<<"e", "c", "2">>)
    ELSE IF token = <<"s", "3">> THEN Some(<<"s", "3">>)
    ELSE IF token = <<"k", "u", "b", "e", "r", "n", "e", "t", "e", "s">> THEN Some(<<"k", "u", "b", "e", "r", "n", "e", "t", "e", "s">>)
    ELSE None

\* finding_link with a table that passes an unlisted token through as its own
\* group.
FindingLinkOpen(i, finding) ==
    LET lower_finding == ToLowercase(finding)
        caps == Captures(lower_finding)
    IN  IF caps = None
        THEN [group |-> None, ret |-> <<>>,
              logs |-> <<ErrLog(i, NoGroupMsg, finding)>>]
        ELSE LET token == Unwrap(Unwrap(caps).group1)
                 group_str == IF GroupOf(token) = None THEN token
                              ELSE Unwrap(GroupOf(token))
                 anchor == RegexReplace(lower_finding, <<"-">> \o group_str \o <<"-">>)
             IN  [group |-> Unwrap(caps).group1,
                  ret |-> BaseUrl \o group_str \o <<".", "h", "t", "m", "l", "#">> \o anchor,
                  logs |-> <<>>]

\* finding_link with Regex::replace_all in place of Regex::replace.
FindingLinkReplaceAll(i, finding) ==
    LET lower_finding == ToLowercase(finding)
        caps == Captures(lower_finding)
    IN  IF caps = None
        THEN [group |-> None, ret |-> <<>>,
              logs |-> <<ErrLog(i, NoGroupMsg, finding)>>]
        ELSE LET captured == Unwrap(caps).group1
                 token == Unwrap(captured)
             IN  IF GroupOf(token) = None
                 THEN [group |-> captured, ret |-> <<>>,
                       logs |-> <<ErrLog(i, UnexpectedGroupMsg, token)>>]
                 ELSE LET group_str == Unwrap(GroupOf(token))
                          anchor == RegexReplaceAll(lower_finding,
                                                    <<"-">> \o group_str \o <<"-">>)
                      IN  [group |-> captured,
                           ret |-> BaseUrl \o group_str \o <<".", "h", "t", "m", "l", "#">> \o anchor,
                           logs |-> <<>>]

\* finding_link with a lookup that takes the text between the first ':' and the
\* first '/' after it, whatever characters it holds.
FindingLinkSplit(i, finding) ==
    LET s == ToLowercase(finding)
        colons == {p \in 1..Len(s) : s[p] = ":"}
        p == CHOOSE a \in colons : \A b \in colons : a <= b
        slashes == {q \in 1..Len(s) : q > p /\ s[q] = "/"}
        q == CHOOSE a \in slashes : \A b \in slashes : a <= b
    IN  IF colons = {} \/ slashes = {}
        THEN [group |-> None, ret |-> <<>>,
              logs |-> <<ErrLog(i, NoGroupMsg, finding)>>]
        ELSE LET token == SubSeq(s, p + 1, q - 1) IN
             IF GroupOf(token) = None
             THEN [group |-> Some(token), ret |-> <<>>,
                   logs |-> <<ErrLog(i, UnexpectedGroupMsg, token)>>]
             ELSE [group |-> Some(token),
                   ret |-> BaseUrl \o Unwrap(GroupOf(token)) \o <<".", "h", "t", "m", "l", "#">>
                             \o SubSeq(s, 1, p - 1) \o <<"-">> \o Unwrap(GroupOf(token))
                             \o <<"-">> \o SubSeq(s, q + 1, Len(s)),
                   logs |-> <<>>]

\* Message::finding_link (lines 183-214), called by invocation i: the capture
\* group it found (finding_group), the String it returns, and what it logs.
FindingLink(i, finding) ==
    LET lower_finding == ToLowercase(finding)
        caps == Captures(lower_finding)
    IN  IF caps = None
        THEN [group |-> None, ret |-> <<>>,
              logs |-> <<ErrLog(i, NoGroupMsg, finding)>>]
        ELSE LET captured == Unwrap(caps).group1 IN
             IF captured = None
             THEN [group |-> None, ret |-> <<>>, logs |-> <<>>]
             ELSE LET token == Unwrap(captured) IN
                  IF GroupOf(token) = None
                  THEN [group |-> captured, ret |-> <<>>,
                        logs |-> <<ErrLog(i, UnexpectedGroupMsg, token)>>]
                  ELSE LET group_str == Unwrap(GroupOf(token))
                           anchor == RegexReplace(lower_finding,
                                                  <<"-">> \o group_str \o <<"-">>)
                       IN  [group |-> captured,
                            ret |-> BaseUrl \o group_str \o <<".", "h", "t", "m", "l", "#">> \o anchor,
                            logs |-> <<>>]

\* ------------------------------------------------------------ the Slack builders
IsAlpha(c) == c \in Chars(UpperCase) \cup Chars(LowerCase)
IsSchemeChar(c) == IsAlpha(c) \/ c \in Chars(Digits) \cup {"+", "-", "."}

\* Url::parse as the slack_hook3 builders use it (title_link and footer_icon,
\* lines 163 and 167; Slack::new, line 46): the text must be an absolute URL,
\* a scheme followed by ':'.  The empty string is a relative URL without a
\* base and does not parse.
UrlParses(s) ==
    \E k \in 2..Len(s) :
        /\ s[k] = ":"
        /\ IsAlpha(s[1])
        /\ \A j \in 2..(k - 1) : IsSchemeChar(s[j])

FooterIcon == <<"h", "t", "t", "p", "s", ":", "/", "/", "r", "u", "s", "t", "a", "c", "e", "a", "n", ".", "n", "e", "t", "/", "a", "s", "s", "e", "t", "s", "/", "r", "u", "s", "t", "a", "c", "e", "a", "n", "-", "f", "l", "a", "t", "-", "h", "a", "p", "p", "y", ".", "p", "n", "g">>

\* The vec! of lines 122-155: four fields, each short.
Fields(m) ==
    <<[title |-> "Severity",   value |-> <<"to_string", m.severity>>,     short |-> Some(TRUE)],
      [title |-> "First seen", value |-> <<"%a %b %e %T", m.event_first_seen>>, short |-> Some(TRUE)],
      [title |-> "Count",      value |-> <<"to_string", m.count>>,        short |-> Some(TRUE)],
      [title |-> "Last seen",  value |-> <<"%a %b %e %T", m.event_last_seen>>,  short |-> Some(TRUE)]>>

\* format! of lines 117-120.
Fallback(m) ==
    <<"G", "u", "a", "r", "d", "D", "u", "t", "y", ":">> \o m.tipe \o <<" ", "i", "n", " ">> \o m.account_id \o <<" ">> \o m.region

\* format! of lines 158-161.
Pretext(m, lvl) ==
    <<"*", "F", "i", "n", "d", "i", "n", "g", " ", "i", "n", " ">> \o m.region \o <<" ", "f", "r", "o", "m", " ", "a", "c", "c", "o", "u", "n", "t", " ">> \o m.account_id
        \o <<"*", " ">> \o lvl.mention

\* AttachmentBuilder ... .build() (lines 156-169): Ok(attachment), or Err when
\* a URL given to the builder did not parse.
Attachment(m, lvl, fb, title_link) ==
    IF UrlParses(title_link) /\ UrlParses(FooterIcon)
    THEN Some([fallback    |-> fb,
               color       |-> lvl.colour,
               pretext     |-> Pretext(m, lvl),
               title       |-> m.tipe,
               title_link  |-> title_link,
               text        |-> m.description,
               fields      |-> Fields(m),
               footer      |-> "GuardyBot",
               footer_icon |-> FooterIcon,
               ts          |-> m.updated_at])
    ELSE None

\* PayloadBuilder ... .build() (lines 172-175).
Payload(a) == [attachments |-> <<a>>, link_names |-> TRUE]

\* ------------------------------------------------------------ inputs
Segments == {<<"R", "e", "c", "o", "n">>, <<":">>, <<"/">>, <<":", "E", "C", "2", "/">>, <<":", "U", "n", "k", "n", "o", "w", "n", "/">>, <<"a", "-", "b">>}

SegmentTypes ==
    {Concat(q) : q \in UNION {[1..n -> Segments] : n \in 0..MaxSegments}}

ExampleTypes ==
    {<<"U", "n", "a", "u", "t", "h", "o", "r", "i", "z", "e", "d", "A", "c", "c", "e", "s", "s", ":", "E", "C", "2", "/", "S", "S", "H", "B", "r", "u", "t", "e", "F", "o", "r", "c", "e">>,
     <<"T", "r", "o", "j", "a", "n", ":", "E", "C", "2", "/", "B", "l", "a", "c", "k", "h", "o", "l", "e", "T", "r", "a", "f", "f", "i", "c">>,
     <<"R", "e", "c", "o", "n", ":", "I", "A", "M", "U", "s", "e", "r", "/", "M", "a", "l", "i", "c", "i", "o", "u", "s", "I", "P", "C", "a", "l", "l", "e", "r">>,
     <<"F", "o", "o">>,
     <<"P", "e", "r", "s", "i", "s", "t", "e", "n", "c", "e", ":", "U", "n", "k", "n", "o", "w", "n", "S", "e", "r", "v", "i", "c", "e", "/", "W", "e", "i", "r", "d">>,
     <<"D", "i", "s", "c", "o", "v", "e", "r", "y", ":", "S", "3", "/", "M", "a", "l", "i", "c", "i", "o", "u", "s", "I", "P", "C", "a", "l", "l", "e", "r">>,
     <<"P", "o", "l", "i", "c", "y", ":", "K", "u", "b", "e", "r", "n", "e", "t", "e", "s", "/", "A", "d", "m", "i", "n", "A", "c", "c", "e", "s", "s", "T", "o", "D", "e", "f", "a", "u", "l", "t", "S", "e", "r", "v", "i", "c", "e", "A", "c", "c", "o", "u", "n", "t">>,
     <<"I", "m", "p", "a", "c", "t", ":", "E", "C", "2", "/", "x", ":", "S", "3", "/", "y">>,
     <<"I", "m", "p", "a", "c", "t", ":", "a", "-", "b", "/", "x", ":", "K", "u", "b", "e", "r", "n", "e", "t", "e", "s", "/", "y", ":", "S", "3", "/", "z">>,
     <<"S", "t", "e", "a", "l", "t", "h", ":", "I", "A", "M", "_", "U", "s", "e", "r", "/", "x">>,
     <<"S", "t", "e", "a", "l", "t", "h", ":", "I", "A", "M", "U", "s", "e", "r", ":", "/", "x">>,
     <<"S", "t", "e", "a", "l", "t", "h", ":", ":", "S", "3", "/", "x">>}

Types == SegmentTypes \cup ExampleTypes

Severities == (-1 * Scale)..(11 * Scale)

\* One severity of the low level and one of the high level.
SampleSeverities == {2 * Scale, 8 * Scale}
SampleTypes == {<<"R", "e", "c", "o", "n", ":", "I", "A", "M", "U", "s", "e", "r", "/", "M", "a", "l", "i", "c", "i", "o", "u", "s", "I", "P", "C", "a", "l", "l", "e", "r">>, <<"S", "t", "e", "a", "l", "t", "h", ":", ":", "S", "3", "/", "x">>, <<"F", "o", "o">>}

\* The fields of Message and Detail (lines 57-103) that build_payload reads.
Finding(t, s) ==
    [tipe |-> t, severity |-> s, account_id |-> <<"1", "2", "3">>, region |-> <<"e", "u">>,
     description |-> "description", event_first_seen |-> "t1",
     event_last_seen |-> "t2", updated_at |-> "t3", count |-> 1]

Findings ==
    {Finding(t, s) : t \in Types, s \in SampleSeverities}
        \cup {Finding(t, s) : t \in SampleTypes, s \in Severities}

SampleFindings == {Finding(t, s) : t \in SampleTypes, s \in SampleSeverities}

\* The text of an SNS message: a JSON document of a finding, or anything else.
Document(f) == [json |-> "finding", doc |-> f]
Malformed == [json |-> "malformed", doc |-> <<>>]

\* event.records, each record given by its sns.message (an Option<String>).
Events(first, rest) ==
    {<<>>, <<None>>, <<Some(Malformed)>>}
        \cup {<<Some(Document(f))>> : f \in first}
        \cup {<<Some(Document(f)), r>> :
                f \in rest, r \in {None, Some(Malformed)} \cup {Some(Document(g)) : g \in rest}}

\* The process environment's WEBHOOK_URL: unset, not a URL, a URL.
Environments == {None, Some(<<"h", "o", "o", "k">>), Some(<<"h", "t", "t", "p", "s", ":", "/", "/", "h", "o", "o", "k", "s", ".", "s", "l", "a", "c", "k", ".", "c", "o", "m", "/", "s", "e", "r", "v", "i", "c", "e", "s", "/", "T", "0">>)}

\* ------------------------------------------------------------ the state machine
Invocations == DOMAIN pc

InitOf(invs, first, rest) ==
    /\ event \in [invs -> Events(first, rest)]
    /\ env \in Environments
    /\ pc = [i \in invs |-> "start"]
    /\ message = [i \in invs |-> None]
    /\ webhook = [i \in invs |-> None]
    /\ level = [i \in invs |-> None]
    /\ fallback = [i \in invs |-> None]
    /\ finding_group = [i \in invs |-> None]
    /\ link = [i \in invs |-> None]
    /\ payload = [i \in invs |-> None]
    /\ result = [i \in invs |-> None]
    /\ panic = [i \in invs |-> None]
    /\ log = <<>>
    /\ outbox = <<>>

Init == InitOf({1}, Findings, SampleFindings)

Panic(i, text) ==
    /\ pc' = [pc EXCEPT ![i] = "panicked"]
    /\ panic' = [panic EXCEPT ![i] = Some(text)]

\* serde_json::from_str::<Message> (line 32).
FromStr(body) == IF body.json = "finding" THEN Some(body.doc) ELSE None

\* Lines 32-33: records[0], its message unwrapped, deserialized.
Decode(i) ==
    /\ pc[i] = "start"
    /\ \/ /\ Len(event[i]) = 0
          /\ Panic(i, "index out of bounds")
          /\ UNCHANGED message
       \/ /\ Len(event[i]) > 0
          /\ event[i][1] = None
          /\ Panic(i, "called Option::unwrap() on a None value")
          /\ UNCHANGED message
       \/ /\ Len(event[i]) > 0
          /\ event[i][1] # None
          /\ FromStr(Unwrap(event[i][1])) = None
          /\ Panic(i, "Failed to deserialize message, wrong format.")
          /\ UNCHANGED message
       \/ /\ Len(event[i]) > 0
          /\ event[i][1] # None
          /\ FromStr(Unwrap(event[i][1])) # None
          /\ message' = [message EXCEPT ![i] = FromStr(Unwrap(event[i][1]))]
          /\ pc' = [pc EXCEPT ![i] = "decoded"]
          /\ UNCHANGED panic
    /\ UNCHANGED <<event, env, webhook, level, fallback, finding_group, link,
                   payload, result, log, outbox>>

\* An invocation that goes on with an empty webhook when WEBHOOK_URL is unset.
ReadEnvDefault(i) ==
    /\ pc[i] = "decoded"
    /\ webhook' = [webhook EXCEPT ![i] = IF env = None THEN Some(<<>>) ELSE env]
    /\ log' = Append(log, DebugLog(i, "WEBHOOK_URL={}", webhook'[i]))
    /\ pc' = [pc EXCEPT ![i] = "configured"]
    /\ UNCHANGED <<event, env, message, level, fallback, finding_group, link,
                   payload, result, panic, outbox>>

\* Lines 35-38: env::var("WEBHOOK_URL").expect(..), then log::debug!.
ReadEnv(i) ==
    /\ pc[i] = "decoded"
    /\ \/ /\ env = None
          /\ Panic(i, "ERR: WEBHOOK_URL environment variable not set, fatal")
          /\ UNCHANGED <<webhook, log>>
       \/ /\ env # None
          /\ webhook' = [webhook EXCEPT ![i] = env]
          /\ log' = Append(log, DebugLog(i, "WEBHOOK_URL={}", Unwrap(env)))
          /\ pc' = [pc EXCEPT ![i] = "configured"]
          /\ UNCHANGED panic
    /\ UNCHANGED <<event, env, message, level, fallback, finding_group, link,
                   payload, result, outbox>>

\* A classifier that escalates the level once the process has logged an error.
ClassifyShared(i) ==
    /\ pc[i] = "configured"
    /\ level' = [level EXCEPT ![i] =
                    IF \E k \in 1..Len(log) : log[k].level = "error"
                    THEN Some(LevelsDefault.critical)
                    ELSE Some(FromSeverity(LevelsDefault, Unwrap(message[i]).severity))]
    /\ fallback' = [fallback EXCEPT ![i] = Some(Fallback(Unwrap(message[i])))]
    /\ pc' = [pc EXCEPT ![i] = "classified"]
    /\ UNCHANGED <<event, env, message, webhook, finding_group, link, payload,
                   result, panic, log, outbox>>

\* build_payload, lines 114-155: the level of the severity, the fallback text
\* (the fields are built with the attachment, from the same message).
Classify(i) ==
    /\ pc[i] = "configured"
    /\ level' = [level EXCEPT ![i] =
                    Some(FromSeverity(LevelsDefault, Unwrap(message[i]).severity))]
    /\ fallback' = [fallback EXCEPT ![i] = Some(Fallback(Unwrap(message[i])))]
    /\ pc' = [pc EXCEPT ![i] = "classified"]
    /\ UNCHANGED <<event, env, message, webhook, finding_group, link, payload,
                   result, panic, log, outbox>>

\* build_payload, line 163: the call of self.finding_link(), which returns.
ResolveLink(i) ==
    /\ pc[i] = "classified"
    /\ LET r == FindingLink(i, Unwrap(message[i]).tipe) IN
        /\ finding_group' = [finding_group EXCEPT ![i] = r.group]
        /\ link' = [link EXCEPT ![i] = Some(r.ret)]
        /\ log' = log \o r.logs
    /\ pc' = [pc EXCEPT ![i] = "linked"]
    /\ UNCHANGED <<event, env, message, webhook, level, fallback, payload,
                   result, panic, outbox>>

\* build_payload, lines 156-176: the attachment and the payload are built, each
\* with .expect(..) on the builder's Result.
BuildPayload(i) ==
    /\ pc[i] = "linked"
    /\ LET a == Attachment(Unwrap(message[i]), Unwrap(level[i]),
                           Unwrap(fallback[i]), Unwrap(link[i])) IN
        \/ /\ a = None
           /\ Panic(i, "ERR: Failed to build Slack attachment")
           /\ UNCHANGED payload
        \/ /\ a # None
           /\ payload' = [payload EXCEPT ![i] = Some(Payload(Unwrap(a)))]
           /\ pc' = [pc EXCEPT ![i] = "built"]
           /\ UNCHANGED panic
    /\ UNCHANGED <<event, env, message, webhook, level, fallback, finding_group,
                   link, result, log, outbox>>

\* A send that hands a delivery failure to its caller, which fails with it.
SendPropagates(i) ==
    /\ pc[i] = "built"
    /\ UrlParses(Unwrap(webhook[i]))
    /\ \E ok \in BOOLEAN :
          /\ outbox' = Append(outbox, [inv |-> i, webhook |-> Unwrap(webhook[i]),
                                       payload |-> Unwrap(payload[i]), ok |-> ok])
          /\ IF ok
             THEN /\ log' = Append(log, InfoLog(i, "Message sent to Slack"))
                  /\ pc' = [pc EXCEPT ![i] = "sent"]
                  /\ UNCHANGED panic
             ELSE /\ log' = Append(log, ErrLog(i, "ERR: {:?}", <<>>))
                  /\ Panic(i, "delivery failed")
    /\ UNCHANGED <<event, env, message, webhook, level, fallback, finding_group,
                   link, payload, result>>

\* send (lines 45-55): Slack::new(webhook).unwrap(), one POST of the payload,
\* whose outcome the network decides, and a log line for either outcome.
Send(i) ==
    /\ pc[i] = "built"
    /\ \/ /\ ~UrlParses(Unwrap(webhook[i]))
          /\ Panic(i, "called Result::unwrap() on an Err value")
          /\ UNCHANGED <<outbox, log>>
       \/ /\ UrlParses(Unwrap(webhook[i]))
          /\ \E ok \in BOOLEAN :
                /\ outbox' = Append(outbox, [inv |-> i, webhook |-> Unwrap(webhook[i]),
                                             payload |-> Unwrap(payload[i]), ok |-> ok])
                /\ log' = Append(log, IF ok THEN InfoLog(i, "Message sent to Slack")
                                            ELSE ErrLog(i, "ERR: {:?}", <<>>))
          /\ pc' = [pc EXCEPT ![i] = "sent"]
          /\ UNCHANGED panic
    /\ UNCHANGED <<event, env, message, webhook, level, fallback, finding_group,
                   link, payload, result>>

\* Line 42: Ok(json!({ "message": "OK" })).
Return(i) ==
    /\ pc[i] = "sent"
    /\ result' = [result EXCEPT ![i] = Some("OK")]
    /\ pc' = [pc EXCEPT ![i] = "done"]
    /\ UNCHANGED <<event, env, message, webhook, level, fallback, finding_group,
                   link, payload, panic, log, outbox>>

\* handler (lines 31-43), one step at a time.
Handler(i) ==
    \/ Decode(i)
    \/ ReadEnv(i)
    \/ Classify(i)
    \/ ResolveLink(i)
    \/ BuildPayload(i)
    \/ Send(i)
    \/ Return(i)

Next == \E i \in Invocations : Handler(i)

Spec == Init /\ [][Next]_vars

\* Two invocations of the handler in one process, interleaved.
InitPair == InitOf({1, 2}, SampleFindings, {Finding(<<"F", "o", "o">>, 2 * Scale)})

SpecPair == InitPair /\ [][Next]_vars

\* ------------------------------------------------------------ properties
TableTokens == {<<"i", "a", "m", "u", "s", "e", "r">>, <<"e", "c", "2">>, <<"s", "3">>, <<"k", "u", "b", "e", "r", "n", "e", "t", "e", "s">>}

\* The table of the documentation: category token, documentation group.
TableGroups ==
    {<<<<"i", "a", "m", "u", "s", "e", "r">>, <<"i", "a", "m">>>>, <<<<"e", "c", "2">>, <<"e", "c", "2">>>>,
     <<<<"s", "3">>, <<"s", "3">>>>, <<<<"k", "u", "b", "e", "r", "n", "e", "t", "e", "s">>, <<"k", "u", "b", "e", "r", "n", "e", "t", "e", "s">>>>}

\* The explicit parser: split at the first ':', then at the first '/' after it.
FirstColon(s) ==
    LET colons == {p \in 1..Len(s) : s[p] = ":"} IN
    IF colons = {} THEN 0 ELSE CHOOSE a \in colons : \A b \in colons : a <= b

FirstSlashAfter(s, p) ==
    LET slashes == {q \in 1..Len(s) : q > p /\ s[q] = "/"} IN
    IF p = 0 \/ slashes = {} THEN 0 ELSE CHOOSE a \in slashes : \A b \in slashes : a <= b

SplitToken(s) ==
    LET p == FirstColon(s)
        q == FirstSlashAfter(s, p)
    IN  IF q = 0 THEN None ELSE Some(SubSeq(s, p + 1, q - 1))

Tipe(i) == Unwrap(message[i]).tipe
LoggedError(i, text, arg) == \E k \in 1..Len(log) : log[k] = ErrLog(i, text, arg)
Sends(i) == {k \in 1..Len(outbox) : outbox[k].inv = i}
Returned(i) == pc[i] \in {"done", "panicked"}

\* C1: from_severity returns Critical (@channel) for 9.0 <= s < 10.0, High
\* (@channel) for 7.0 <= s < 9.0, Medium (@here) for 4.0 <= s < 7.0, Low (no
\* mention) for 1.0 <= s < 4.0 and Unknown (no mention) for every other value;
\* 1.0, 4.0, 7.0, 9.0 are Low, Medium, High, Critical, 10.0 is Unknown, and
\* the level returned is exactly one of the five.
C1_FromSeverityTiers ==
    \A i \in Invocations : level[i] # None =>
        LET s == Unwrap(message[i]).severity
            l == Unwrap(level[i])
        IN  /\ (9 * Scale <= s /\ s < 10 * Scale) =>
                    l = LevelsDefault.critical /\ l.mention = <<"@", "c", "h", "a", "n", "n", "e", "l">>
            /\ (7 * Scale <= s /\ s < 9 * Scale) =>
                    l = LevelsDefault.high /\ l.mention = <<"@", "c", "h", "a", "n", "n", "e", "l">>
            /\ (4 * Scale <= s /\ s < 7 * Scale) =>
                    l = LevelsDefault.medium /\ l.mention = <<"@", "h", "e", "r", "e">>
            /\ (1 * Scale <= s /\ s < 4 * Scale) =>
                    l = LevelsDefault.low /\ l.mention = <<>>
            /\ (s < 1 * Scale \/ s >= 10 * Scale) =>
                    l = LevelsDefault.unknown /\ l.mention = <<>>
            /\ s = 1 * Scale => l = LevelsDefault.low
            /\ s = 4 * Scale => l = LevelsDefault.medium
            /\ s = 7 * Scale => l = LevelsDefault.high
            /\ s = 9 * Scale => l = LevelsDefault.critical
            /\ s = 10 * Scale => l = LevelsDefault.unknown
            /\ Cardinality({t \in DOMAIN LevelsDefault : LevelsDefault[t] = l}) = 1

\* A severity of exactly 10.0 has been classified, as Unknown.
C1_Witness ==
    \E i \in Invocations :
        /\ level[i] = Some(LevelsDefault.unknown)
        /\ Unwrap(message[i]).severity = 10 * Scale

\* C2: when the category token finding_link extracted is not iamuser, ec2, s3
\* or kubernetes (the empty token too), finding_link returns the empty string,
\* logs an error and returns to its caller without a fault; it returns a
\* non-empty URL only for one of the four tokens.
C2_FailClosed ==
    \A i \in Invocations : link[i] # None =>
        /\ (finding_group[i] # None /\ Unwrap(finding_group[i]) \notin TableTokens) =>
              /\ Unwrap(link[i]) = <<>>
              /\ LoggedError(i, UnexpectedGroupMsg, Unwrap(finding_group[i]))
              /\ pc[i] = "linked" => panic[i] = None
        /\ Unwrap(link[i]) # <<>> =>
              /\ finding_group[i] # None
              /\ Unwrap(finding_group[i]) \in TableTokens

\* finding_link has returned from "Persistence:UnknownService/Weird", whose
\* token is unknownservice, with the empty string.
C2_Witness ==
    \E i \in Invocations :
        /\ pc[i] = "linked"
        /\ Tipe(i) = <<"P", "e", "r", "s", "i", "s", "t", "e", "n", "c", "e", ":", "U", "n", "k", "n", "o", "w", "n", "S", "e", "r", "v", "i", "c", "e", "/", "W", "e", "i", "r", "d">>
        /\ finding_group[i] = Some(<<"u", "n", "k", "n", "o", "w", "n", "s", "e", "r", "v", "i", "c", "e">>)
        /\ link[i] = Some(<<>>)

\* C3, as claimed: the category token finding_link uses is the text of the
\* lower-cased finding type between its first ':' and the first '/' after it,
\* and a finding type with no such text gives the empty string, an error in the
\* log and no fault.
C3_TokenIsFirstSplit ==
    \A i \in Invocations : link[i] # None =>
        LET tok == SplitToken(ToLowercase(Tipe(i))) IN
        /\ tok # None => finding_group[i] = tok
        /\ tok = None =>
              /\ link[i] = Some(<<>>)
              /\ LoggedError(i, NoGroupMsg, Tipe(i))
              /\ pc[i] = "linked" => panic[i] = None

\* C3, amended: the category token is the text between the leftmost ':' that is
\* followed by word characters only (none too) and then a '/', and that '/';
\* it is the text between the first ':' and the first '/' after it whenever
\* that text holds word characters only; a finding type with no ':' so
\* followed gives no token, the empty string, an error in the log naming the
\* finding type, and no fault.
C3_TokenIsWordRun ==
    \A i \in Invocations : link[i] # None =>
        LET s == ToLowercase(Tipe(i))
            tok == SplitToken(s)
            delimited == {pq \in (1..Len(s)) \X (1..Len(s)) :
                            /\ pq[1] < pq[2]
                            /\ s[pq[1]] = ":"
                            /\ s[pq[2]] = "/"
                            /\ \A k \in (pq[1] + 1)..(pq[2] - 1) : IsWord(s[k])}
        IN  /\ (tok # None /\ \A c \in Chars(Unwrap(tok)) : IsWord(c)) =>
                  finding_group[i] = tok
            /\ delimited # {} =>
                  \E pq \in delimited :
                      /\ \A rs \in delimited : pq[1] <= rs[1]
                      /\ finding_group[i] = Some(SubSeq(s, pq[1] + 1, pq[2] - 1))
            /\ delimited = {} =>
                  /\ finding_group[i] = None
                  /\ link[i] = Some(<<>>)
                  /\ LoggedError(i, NoGroupMsg, Tipe(i))
                  /\ pc[i] = "linked" => panic[i] = None

\* finding_link has run on a finding type whose first ':' is not followed by
\* word characters and a '/', and took its token from a later ':'.
C3_Witness ==
    \E i \in Invocations :
        /\ pc[i] = "linked"
        /\ Tipe(i) = <<"I", "m", "p", "a", "c", "t", ":", "a", "-", "b", "/", "x", ":", "K", "u", "b", "e", "r", "n", "e", "t", "e", "s", "/", "y", ":", "S", "3", "/", "z">>
        /\ finding_group[i] = Some(<<"k", "u", "b", "e", "r", "n", "e", "t", "e", "s">>)

\* C4: for a finding type P:C/R (split at its first ':' and the first '/' after
\* it) whose lower-cased category C is in the table with group g, finding_link
\* returns the base URL, g, ".html#" and the anchor: the lower-cased finding
\* type with ":C/" rewritten to "-g-" and the rest unchanged.
C4_LinkOfListedCategory ==
    \A i \in Invocations : link[i] # None =>
        LET s == ToLowercase(Tipe(i))
            p == FirstColon(s)
            q == FirstSlashAfter(s, p)
        IN  q # 0 =>
              \A cg \in TableGroups :
                  SubSeq(s, p + 1, q - 1) = cg[1] =>
                      Unwrap(link[i]) =
                          BaseUrl \o cg[2] \o <<".", "h", "t", "m", "l", "#">> \o SubSeq(s, 1, p - 1)
                              \o <<"-">> \o cg[2] \o <<"-">> \o SubSeq(s, q + 1, Len(s))

\* finding_link has returned the iam link of "Recon:IAMUser/MaliciousIPCaller".
C4_Witness ==
    \E i \in Invocations :
        /\ pc[i] = "linked"
        /\ Tipe(i) = <<"R", "e", "c", "o", "n", ":", "I", "A", "M", "U", "s", "e", "r", "/", "M", "a", "l", "i", "c", "i", "o", "u", "s", "I", "P", "C", "a", "l", "l", "e", "r">>
        /\ link[i] = Some(BaseUrl \o <<"i", "a", "m", ".", "h", "t", "m", "l", "#", "r", "e", "c", "o", "n", "-", "i", "a", "m", "-", "m", "a", "l", "i", "c", "i", "o", "u", "s", "i", "p", "c", "a", "l", "l", "e", "r">>)

\* C5: build_payload never raises for a decoded finding: when finding_link
\* returned the empty string, build_payload still returns a payload, whose
\* title link is empty.
C5_BuildPayloadNeverRaises ==
    \A i \in Invocations :
        (link[i] = Some(<<>>) /\ pc[i] # "linked") =>
            /\ panic[i] # Some("ERR: Failed to build Slack attachment")
            /\ payload[i] # None
            /\ Unwrap(payload[i]).attachments[1].title_link = <<>>

\* C6: for a severity of the Low or the Unknown level the mention is the empty
\* string and the pretext of the payload has no extraneous whitespace: it does
\* not end in a space after the account-id clause.
C6_PretextNoTrailingSpace ==
    \A i \in Invocations :
        (payload[i] # None
            /\ Unwrap(level[i]) \in {LevelsDefault.low, LevelsDefault.unknown}) =>
            LET pretext == Unwrap(payload[i]).attachments[1].pretext IN
            /\ Unwrap(level[i]).mention = <<>>
            /\ pretext[Len(pretext)] # " "

\* C7: an invocation that has decoded its finding and read its webhook has,
\* when the handler is over, attempted exactly one send, also when the link
\* resolution failed.
C7_ExactlyOneSend ==
    \A i \in Invocations :
        (Returned(i) /\ message[i] # None /\ webhook[i] # None) =>
            Cardinality(Sends(i)) = 1

\* C8: when the send to the webhook fails, the failure is logged as an error
\* and the handler goes on to return the success result OK, as it does when
\* the delivery succeeds.
C8_DeliveryFailureAbsorbed ==
    \A i \in Invocations :
        /\ (\E k \in Sends(i) : ~outbox[k].ok) =>
              /\ LoggedError(i, "ERR: {:?}", <<>>)
              /\ panic[i] = None
              /\ pc[i] \in {"sent", "done"}
              /\ pc[i] = "sent" => ENABLED Return(i)
        /\ (pc[i] = "done" /\ Sends(i) # {}) => result[i] = Some("OK")

\* The send of an invocation failed and the handler returned OK.
C8_Witness ==
    \E i \in Invocations :
        /\ \E k \in Sends(i) : ~outbox[k].ok
        /\ pc[i] = "done"
        /\ result[i] = Some("OK")

MalformedEvent(i) ==
    \/ Len(event[i]) = 0
    \/ event[i][1] = None
    \/ Unwrap(event[i][1]).json # "finding"

\* C9: with a malformed event or without WEBHOOK_URL the invocation ends in an
\* error at once: no level, link or payload is computed, no send is attempted
\* and no result is returned.
C9_FatalErrors ==
    \A i \in Invocations :
        /\ MalformedEvent(i) => pc[i] \in {"start", "panicked"} /\ message[i] = None
        /\ (MalformedEvent(i) \/ env = None) =>
              /\ pc[i] \in {"start", "decoded", "panicked"}
              /\ pc[i] = "panicked" => panic[i] # None
              /\ level[i] = None
              /\ link[i] = None
              /\ payload[i] = None
              /\ Sends(i) = {}
              /\ result[i] = None

\* An invocation with a decodable finding has ended in the panic of the missing
\* WEBHOOK_URL.
C9_Witness ==
    \E i \in Invocations :
        /\ env = None
        /\ message[i] # None
        /\ pc[i] = "panicked"
        /\ panic[i] = Some("ERR: WEBHOOK_URL environment variable not set, fatal")

SameFinding(i, j) == message[i] # None /\ message[i] = message[j]

====
